---- MODULE Spec2Model ----
(***************************************************************************)
(* Model of the watcher pipeline (watcher.py) and of the strict connection *)
(* type (network_types.py).                                                *)
(*                                                                         *)
(* Python values of mixed type are tagged tuples: <<"int", n>>,            *)
(* <<"str", s>>, <<"None">>.  Python text that the code builds or slices   *)
(* is a sequence of string tokens.  Objects live in `heap`; a list of      *)
(* objects is a sequence of heap indices, so identity is index equality.   *)
(***************************************************************************)
EXTENDS Integers, Sequences, FiniteSets, TLC

MaxConns == 2
MaxReports == 2

SOCK_STREAM == 1
SOCK_DGRAM == 2

PyNone == <<"None">>
PyInt(n) == <<"int", n>>
PyStr(s) == <<"str", s>>

Pids == {7}
IpKinds == {"IP4", "IP6", "IPX"}
TransportKinds == {"TCP", "UDP", "SCTP"}
OsStates == {"LISTEN", "CLOSE_WAIT"}
LAddr == <<"addr(ip='127.0.0.1',", " ", "port=9150)">>
RAddr == <<"(", ")">>

RawRecords ==
    [type : {SOCK_STREAM, SOCK_DGRAM}, laddr : {LAddr}, raddr : {RAddr},
     status : OsStates, pid : {PyNone} \cup {PyInt(p) : p \in Pids}]

RECURSIVE SeqsUpTo(_, _)
SeqsUpTo(S, n) ==
    IF n = 0 THEN {<<>>}
    ELSE LET shorter == SeqsUpTo(S, n - 1)
         IN shorter \cup {Append(s, x) : s \in {t \in shorter : Len(t) = n - 1}, x \in S}

(* ---------------- watcher.py: the Finding ---------------- *)

ConnStateT == {"ESTABLISHED", "LAST_ACK", "LISTEN", "NONE", "TIME_WAIT"}

DefaultPidDetails == <<"-">>

Replace(s, old) == SelectSeq(s, LAMBDA t : t # old)

ProcessStr(p) ==
    <<"psutil.Process", "(", "pid=", ToString(p), ", name='sshd', status='running'", ")">>

IntOf(v) ==
    IF v[1] = "int" THEN [exc |-> "none", val |-> v[2]]
    ELSE [exc |-> "ValueError", val |-> 0]

PsutilProcess(pid, live) ==
    IF pid < 0 THEN [exc |-> "ValueError", val |-> pid]
    ELSE IF pid \in live THEN [exc |-> "none", val |-> pid]
    ELSE [exc |-> "NoSuchProcess", val |-> pid]

StrCaught_nothing == {}

StrCaught == {"ValueError"}

FormatPid(v) == IF v[1] = "int" THEN ToString(v[2]) ELSE v[2]

Format(f) ==
    <<f.ip_version, ":", f.transport_version, ", ", "Local:">> \o f.local_address
    \o <<", ", "Remote:">> \o f.remote_address
    \o <<", ", "Status:", f.connection_state, ", ", "ProcessID:", FormatPid(f.pid_number),
         ", ProcessDetails(">> \o f.pid_details \o <<")">>

ResolvedDetails(p) ==
    LET s == Replace(ProcessStr(p), "psutil.Process")
    IN SubSeq(s, 2, Len(s) - 1)

FindingStr(f, live) ==
    LET n == IntOf(f.pid_number)
        p == IF n.exc = "none" THEN PsutilProcess(n.val, live) ELSE n
        g == IF p.exc = "none" THEN [f EXCEPT !.pid_details = ResolvedDetails(p.val)] ELSE f
    IN IF p.exc = "none" \/ p.exc \in StrCaught
       THEN [exc |-> "none", obj |-> g, text |-> Format(g)]
       ELSE [exc |-> p.exc, obj |-> f, text |-> <<>>]

(* ---------------- watcher.py: IpConnectionWatcher ---------------- *)

IP_MAPPER == ("IP4" :> "inet4") @@ ("IP6" :> "inet6")
TRANSPORT_MAPPER == ("TCP" :> SOCK_STREAM) @@ ("UDP" :> SOCK_DGRAM)

PidOf(conn) == IF conn.pid = PyNone THEN PyStr("-") ELSE conn.pid

StateOf_validating(conn) == IF conn.status \in ConnStateT THEN conn.status ELSE "NONE"

StateOf(conn) == conn.status

PrepareIpConnection(conn, ipk, trk) ==
    [ip_version |-> ipk,
     transport_version |-> trk,
     local_address |-> Replace(conn.laddr, " "),
     remote_address |-> Replace(conn.raddr, " "),
     connection_state |-> StateOf(conn),
     pid_number |-> PidOf(conn),
     pid_details |-> DefaultPidDetails]

(* ---------------- watcher.py: AnalyzerService ---------------- *)

AnalyzeAppend_onlyFlagged(analyzing_results, finding_item, finding_item_check) ==
    IF finding_item_check
    THEN Append(analyzing_results, <<finding_item, finding_item_check>>)
    ELSE analyzing_results

AnalyzeAppend(analyzing_results, finding_item, finding_item_check) ==
    Append(analyzing_results, <<finding_item, finding_item_check>>)

(* ---------------- watcher.py: BasicReporter ---------------- *)

ProblematicChecks_all(findings_checks) == findings_checks

ProblematicChecks(findings_checks) == SelectSeq(findings_checks, LAMBDA finding : finding[2])

Header == <<"There are following problematic findings:">>

PrintedLine(text) == <<" *", " ">> \o text

(* ---------------- watcher.py: SupervisorManager ---------------- *)

SupervisorNext_retry(stage) ==
    CASE stage = "call" -> "watcher.run"
      [] stage = "watcher.run" -> "analyzer.analyze"
      [] stage = "analyzer.analyze" -> "analyzer.analyze"
      [] OTHER -> "return"

SupervisorNext_noReport(stage) ==
    CASE stage = "call" -> "watcher.run"
      [] stage = "watcher.run" -> "analyzer.analyze"
      [] OTHER -> "return"

SupervisorNext(stage) ==
    CASE stage = "call" -> "watcher.run"
      [] stage = "watcher.run" -> "analyzer.analyze"
      [] stage = "analyzer.analyze" -> "reporter.report"
      [] OTHER -> "return"

(* ---------------- network_types.py ---------------- *)

ConnStateMembers == {"ESTABLISHED", "LAST_ACK", "LISTEN", "NONE", "TIME_WAIT"}

TrTags == {"tcp", "tcp6", "udp"}
NetStates == {"NONE", "LISTEN", "CLOSE_WAIT"}
StartSockets == [ip_addr : {"1.1.1.1"}, tr_prot : TrTags, port_num : {"80"}]
EndSockets == [ip_addr : {"1.1.1.2"}, tr_prot : TrTags, port_num : {"82"}]

TrProtDiffer_self(start_socket, end_socket) == start_socket.tr_prot # start_socket.tr_prot

TrProtDiffer(start_socket, end_socket) == start_socket.tr_prot # end_socket.tr_prot

StateRejected(conn_state) == conn_state \notin ConnStateMembers

IpConnectionInit(start_socket, end_socket, conn_state) ==
    IF TrProtDiffer(start_socket, end_socket)
    THEN [exc |-> "ValueError",
          msg |-> "Different transport protocols used in socket endpoints.",
          obj |-> <<>>]
    ELSE IF StateRejected(conn_state)
    THEN [exc |-> "ValueError",
          msg |-> "Connection state has to be one of following:",
          obj |-> <<>>]
    ELSE [exc |-> "none",
          msg |-> "",
          obj |-> <<[_start_socket |-> start_socket,
                     _end_socket |-> end_socket,
                     _conn_state |-> conn_state]>>]

VARIABLES ip_kind, transport_kind, osTable, procs, pc, error, connections, idx,
          heap, origin, findings, results, problematic, trace, osCalls, itemLog,
          caller, reportArg, heapAtCall, outputs, strLog, netArgs, netResult

vars == <<ip_kind, transport_kind, osTable, procs, pc, error, connections, idx,
          heap, origin, findings, results, problematic, trace, osCalls, itemLog,
          caller, reportArg, heapAtCall, outputs, strLog, netArgs, netResult>>

netVars == <<netArgs, netResult>>
envVars == <<ip_kind, transport_kind, osTable>>
watchVars == <<connections, heap, origin, findings, osCalls>>
analyzeVars == <<results, itemLog>>
reportVars == <<caller, problematic, reportArg, heapAtCall, outputs, strLog>>

NoArgs == [start |-> <<>>, end |-> <<>>, state |-> ""]
NotCalled == [exc |-> "not called", msg |-> "", obj |-> <<>>]

Idle ==
    /\ procs = Pids
    /\ error = "none"
    /\ connections = <<>>
    /\ idx = 1
    /\ heap = <<>>
    /\ origin = <<>>
    /\ findings = <<>>
    /\ results = <<>>
    /\ problematic = <<>>
    /\ trace = <<>>
    /\ osCalls = 0
    /\ itemLog = <<>>
    /\ caller = "none"
    /\ reportArg = <<>>
    /\ heapAtCall = <<>>
    /\ outputs = <<>>
    /\ strLog = <<>>
    /\ netResult = NotCalled

Init ==
    /\ ip_kind \in IpKinds
    /\ transport_kind \in TransportKinds
    /\ osTable \in SeqsUpTo(RawRecords, MaxConns)
    /\ pc = "idle"
    /\ netArgs = NoArgs
    /\ Idle

(* What the supervisor does once `stage` has returned (or, for "call", on entry). *)
Enter(stage) ==
    LET nxt == SupervisorNext(stage)
        ret == IF stage = "call" THEN trace ELSE Append(trace, <<"return", stage>>)
    IN CASE nxt = "watcher.run" ->
              /\ pc' = "fetch"
              /\ trace' = Append(ret, <<"call", nxt>>)
              /\ UNCHANGED <<idx, results, caller, reportArg, heapAtCall, outputs>>
         [] nxt = "analyzer.analyze" ->
              /\ pc' = "analyze"
              /\ trace' = Append(ret, <<"call", nxt>>)
              /\ idx' = 1
              /\ results' = <<>>
              /\ UNCHANGED <<caller, reportArg, heapAtCall, outputs>>
         [] nxt = "reporter.report" ->
              /\ pc' = "report_filter"
              /\ trace' = Append(ret, <<"call", nxt>>)
              /\ caller' = "supervisor"
              /\ reportArg' = results
              /\ heapAtCall' = heap
              /\ outputs' = Append(outputs, <<>>)
              /\ UNCHANGED <<idx, results>>
         [] OTHER ->
              /\ pc' = "done"
              /\ trace' = ret
              /\ UNCHANGED <<idx, results, caller, reportArg, heapAtCall, outputs>>

Raise(stage, exc) ==
    /\ pc' = "raised"
    /\ error' = exc
    /\ trace' = IF stage = "direct" THEN trace ELSE Append(trace, <<"raise", stage>>)

(* SupervisorManager.report is entered *)
SupervisorReport ==
    /\ pc = "idle"
    /\ Enter("call")
    /\ UNCHANGED <<envVars, procs, error, watchVars, itemLog, problematic, strLog, netVars>>

(* __fetch_ip_connections: ip_kind_ = self.IP_MAPPER[self.__ip_kind] *)
FetchLookupIpKind ==
    /\ pc = "fetch"
    /\ IF ip_kind \in DOMAIN IP_MAPPER
       THEN pc' = "query" /\ UNCHANGED <<error, trace>>
       ELSE Raise("watcher.run", "KeyError")
    /\ UNCHANGED <<envVars, procs, idx, watchVars, analyzeVars, reportVars, netVars>>

(* connections = psutil.net_connections(kind=ip_kind_) *)
OsQuery ==
    /\ pc = "query"
    /\ connections' = osTable
    /\ osCalls' = osCalls + 1
    /\ idx' = 1
    /\ pc' = "filter"
    /\ UNCHANGED <<envVars, procs, error, heap, origin, findings, analyzeVars, trace,
                   reportVars, netVars>>

(* one iteration of the comprehension that filters and prepares *)
FilterStep ==
    /\ pc = "filter"
    /\ idx <= Len(connections)
    /\ IF transport_kind \notin DOMAIN TRANSPORT_MAPPER
       THEN /\ Raise("watcher.run", "KeyError")
            /\ UNCHANGED <<idx, heap, origin, findings>>
       ELSE /\ UNCHANGED <<pc, error, trace>>
            /\ idx' = idx + 1
            /\ IF connections[idx].type = TRANSPORT_MAPPER[transport_kind]
               THEN /\ heap' = Append(heap, PrepareIpConnection(connections[idx], ip_kind, transport_kind))
                    /\ origin' = Append(origin, idx)
                    /\ findings' = Append(findings, Len(heap) + 1)
               ELSE UNCHANGED <<heap, origin, findings>>
    /\ UNCHANGED <<envVars, procs, connections, osCalls, analyzeVars, reportVars, netVars>>

(* the comprehension is exhausted; run() returns its copy of the list *)
WatcherReturn ==
    /\ pc = "filter"
    /\ idx > Len(connections)
    /\ Enter("watcher.run")
    /\ UNCHANGED <<envVars, procs, error, watchVars, itemLog, problematic, strLog, netVars>>

(* one iteration of analyze's loop in which analyze_item returns a flag *)
AnalyzeItemReturns ==
    /\ pc = "analyze"
    /\ idx <= Len(findings)
    /\ \E check \in BOOLEAN :
          /\ itemLog' = Append(itemLog, [arg |-> findings[idx], exc |-> "none", ret |-> check])
          /\ results' = AnalyzeAppend(results, findings[idx], check)
    /\ idx' = idx + 1
    /\ UNCHANGED <<envVars, procs, pc, error, trace, watchVars, reportVars, netVars>>

(* one iteration of analyze's loop in which analyze_item raises *)
AnalyzeItemRaises ==
    /\ pc = "analyze"
    /\ idx <= Len(findings)
    /\ itemLog' = Append(itemLog, [arg |-> findings[idx], exc |-> "AnalysisError", ret |-> FALSE])
    /\ Raise("analyzer.analyze", "AnalysisError")
    /\ UNCHANGED <<envVars, procs, idx, watchVars, results, reportVars, netVars>>

(* analyze's loop is exhausted; return analyzing_results *)
AnalyzeReturn ==
    /\ pc = "analyze"
    /\ idx > Len(findings)
    /\ Enter("analyzer.analyze")
    /\ UNCHANGED <<envVars, procs, error, watchVars, itemLog, problematic, strLog, netVars>>

(* BasicReporter.report: build problematic_checks, print the header *)
ReportFilter ==
    /\ pc = "report_filter"
    /\ problematic' = ProblematicChecks(reportArg)
    /\ outputs' = IF problematic' # <<>>
                  THEN [outputs EXCEPT ![Len(outputs)] = Append(@, Header)]
                  ELSE outputs
    /\ idx' = 1
    /\ pc' = "report_print"
    /\ UNCHANGED <<envVars, procs, error, trace, watchVars, analyzeVars, caller, reportArg,
                   heapAtCall, strLog, netVars>>

(* BasicReporter.report: one iteration of the printing loop *)
ReportPrint ==
    /\ pc = "report_print"
    /\ idx <= Len(problematic)
    /\ LET id == problematic[idx][1]
           r == FindingStr(heap[id], procs)
       IN /\ strLog' = Append(strLog, [obj |-> id, exc |-> r.exc])
          /\ heap' = [heap EXCEPT ![id] = r.obj]
          /\ IF r.exc = "none"
             THEN /\ outputs' = [outputs EXCEPT ![Len(outputs)] = Append(@, PrintedLine(r.text))]
                  /\ idx' = idx + 1
                  /\ UNCHANGED <<pc, error, trace>>
             ELSE /\ Raise(IF caller = "supervisor" THEN "reporter.report" ELSE "direct", r.exc)
                  /\ UNCHANGED <<outputs, idx>>
    /\ UNCHANGED <<envVars, procs, connections, origin, findings, osCalls, analyzeVars,
                   caller, problematic, reportArg, heapAtCall, netVars>>

(* BasicReporter.report returns *)
ReportReturn ==
    /\ pc = "report_print"
    /\ idx > Len(problematic)
    /\ IF caller = "supervisor"
       THEN Enter("reporter.report")
       ELSE /\ pc' = "done"
            /\ UNCHANGED <<trace, idx, results, caller, reportArg, heapAtCall, outputs>>
    /\ UNCHANGED <<envVars, procs, error, watchVars, itemLog, problematic, strLog, netVars>>

(* BasicReporter.report is called again, directly, with the same annotated list *)
ReportAgain ==
    /\ pc = "done"
    /\ Len(outputs) < MaxReports
    /\ caller' = "direct"
    /\ heapAtCall' = heap
    /\ outputs' = Append(outputs, <<>>)
    /\ pc' = "report_filter"
    /\ UNCHANGED <<envVars, procs, error, idx, trace, watchVars, analyzeVars, problematic,
                   reportArg, strLog, netVars>>

(* a process of the host exits *)
ProcessExit ==
    /\ \E p \in procs : procs' = procs \ {p}
    /\ UNCHANGED <<envVars, pc, error, idx, trace, watchVars, analyzeVars, reportVars, netVars>>

Next ==
    \/ SupervisorReport
    \/ FetchLookupIpKind
    \/ OsQuery
    \/ FilterStep
    \/ WatcherReturn
    \/ AnalyzeItemReturns
    \/ AnalyzeItemRaises
    \/ AnalyzeReturn
    \/ ReportFilter
    \/ ReportPrint
    \/ ReportReturn
    \/ ReportAgain
    \/ ProcessExit

Spec == Init /\ [][Next]_vars

(* ---------------- the constructors on their own ---------------- *)

InitTypes ==
    /\ ip_kind \in IpKinds
    /\ transport_kind \in TransportKinds
    /\ osTable \in {<<r>> : r \in RawRecords}
    /\ pc = "types"
    /\ netArgs \in [start : StartSockets, end : EndSockets, state : NetStates]
    /\ Idle

(* network_types.IpConnection(start_socket, end_socket, conn_state) *)
NewIpConnection ==
    /\ pc = "types"
    /\ netResult = NotCalled
    /\ netResult' = IpConnectionInit(netArgs.start, netArgs.end, netArgs.state)
    /\ UNCHANGED <<envVars, procs, pc, error, idx, trace, watchVars, analyzeVars, reportVars, netArgs>>

(* IpConnectionWatcher.__prepare_ip_connection(conn) on one raw record *)
PrepareFinding ==
    /\ pc = "types"
    /\ heap = <<>>
    /\ heap' = <<PrepareIpConnection(osTable[1], ip_kind, transport_kind)>>
    /\ origin' = <<1>>
    /\ UNCHANGED <<envVars, procs, pc, error, idx, trace, connections, findings, osCalls,
                   analyzeVars, reportVars, netVars>>

NextTypes ==
    \/ NewIpConnection
    \/ PrepareFinding

SpecTypes == InitTypes /\ [][NextTypes]_vars

(* ---------------- properties ---------------- *)

Recognized == {"ESTABLISHED", "LAST_ACK", "LISTEN", "NONE", "TIME_WAIT"}

Sentinel == "-"

InTrace(e) == \E k \in DOMAIN trace : trace[k] = e

Count(e) == Cardinality({k \in DOMAIN trace : trace[k] = e})

IsPrefix(s, t) == Len(s) <= Len(t) /\ SubSeq(t, 1, Len(s)) = s

FullTrace ==
    << <<"call", "watcher.run">>, <<"return", "watcher.run">>,
       <<"call", "analyzer.analyze">>, <<"return", "analyzer.analyze">>,
       <<"call", "reporter.report">>, <<"return", "reporter.report">> >>

NetCalled == netResult # NotCalled

(* C1: once analyze(findings) has returned, its result has exactly one pair
   per input finding, in input order; the i-th pair holds the i-th finding
   object itself and the value analyze_item returned for it (so analyze([])
   is []). *)
C1_AnalyzeIsTotalAndOrdered ==
    InTrace(<<"return", "analyzer.analyze">>) =>
        /\ Len(results) = Len(findings)
        /\ Len(itemLog) = Len(findings)
        /\ \A i \in DOMAIN findings :
              /\ results[i][1] = findings[i]
              /\ itemLog[i].arg = findings[i]
              /\ itemLog[i].exc = "none"
              /\ results[i][2] = itemLog[i].ret

C1_Witness ==
    /\ InTrace(<<"return", "analyzer.analyze">>)
    /\ Len(findings) = 2
    /\ results[1][2] = TRUE
    /\ results[2][2] = FALSE

(* C2: the supervisor's calls form a prefix of watcher.run, analyzer.analyze,
   reporter.report, each made once and only after the previous one returned;
   the analyzer works on the watcher's result and the reporter receives the
   analyzer's result; a stage that raises ends the run with the error
   propagated and nothing called after it. *)
C2_SinglePassInOrder ==
    LET n == Len(trace)
    IN /\ IF n > 0 /\ trace[n][1] = "raise"
          THEN /\ n >= 2
               /\ trace[n - 1] = <<"call", trace[n][2]>>
               /\ IsPrefix(SubSeq(trace, 1, n - 1), FullTrace)
               /\ pc = "raised"
               /\ error # "none"
          ELSE /\ IsPrefix(trace, FullTrace)
               /\ (pc = "raised" => caller = "direct")
       /\ \A k \in DOMAIN itemLog : k <= Len(findings) /\ itemLog[k].arg = findings[k]
       /\ (InTrace(<<"call", "reporter.report">>) => reportArg = results)

C2_Witness ==
    /\ pc = "done"
    /\ trace = FullTrace
    /\ Len(findings) = 2
    /\ caller = "supervisor"

(* C3: when the watcher returned the empty list, analyze_item is never
   invoked, the run cannot fail, and by the time the supervisor returns it
   has called the reporter exactly once, with the empty list. *)
C3_EmptyRunReportsOnce ==
    (InTrace(<<"return", "watcher.run">>) /\ findings = <<>>) =>
        /\ itemLog = <<>>
        /\ pc # "raised"
        /\ Count(<<"call", "reporter.report">>) <= 1
        /\ (InTrace(<<"call", "reporter.report">>) => reportArg = <<>>)
        /\ (pc = "done" => Count(<<"call", "reporter.report">>) = 1)

C3_Witness ==
    /\ pc = "done"
    /\ InTrace(<<"return", "watcher.run">>)
    /\ findings = <<>>
    /\ Len(osTable) > 0
    /\ outputs = << <<>> >>

(* C4: network_types.IpConnection built from endpoints whose tr_prot tags
   differ ends in ValueError with no object, whatever the state; with equal
   tags and a recognized state it yields the object holding both endpoints
   and the state. *)
C4_MismatchedTransportRejected ==
    NetCalled =>
        /\ (netArgs.start.tr_prot # netArgs.end.tr_prot =>
               netResult.exc = "ValueError" /\ netResult.obj = <<>>)
        /\ ((netArgs.start.tr_prot = netArgs.end.tr_prot /\ netArgs.state \in Recognized) =>
               /\ netResult.exc = "none"
               /\ netResult.obj = <<[_start_socket |-> netArgs.start,
                                     _end_socket |-> netArgs.end,
                                     _conn_state |-> netArgs.state]>>)

C4_Witness ==
    /\ NetCalled
    /\ netArgs.start.tr_prot = "tcp"
    /\ netArgs.end.tr_prot = "tcp6"
    /\ netArgs.state \notin Recognized
    /\ netResult.exc = "ValueError"

(* C5: a watcher whose ip_kind or transport_kind is outside the enumerated
   values never reaches the OS socket-table query and never returns
   normally from run. *)
C5_UnknownKindFailsBeforeOsCall ==
    (ip_kind \notin {"IP4", "IP6"} \/ transport_kind \notin {"TCP", "UDP"}) =>
        /\ osCalls = 0
        /\ ~InTrace(<<"return", "watcher.run">>)

(* C6: no stringification of a Finding raises, whatever its pid_number and
   whether or not the process exists at render time. *)
C6_StrNeverRaises ==
    /\ \A k \in DOMAIN strLog : strLog[k].exc = "none"
    /\ error # "NoSuchProcess"

(* C7: a Finding built from a raw record without a process id has
   pid_number "-", keeps pid_details "-" through every stringification, and
   no stringification of it raises. *)
C7_NoPidStaysSentinel ==
    \A i \in DOMAIN heap :
        osTable[origin[i]].pid = PyNone =>
            /\ heap[i].pid_number = PyStr(Sentinel)
            /\ heap[i].pid_details = <<Sentinel>>
            /\ \A k \in DOMAIN strLog : strLog[k].obj = i => strLog[k].exc = "none"

C7_Witness ==
    \E i \in DOMAIN heap :
        /\ osTable[origin[i]].pid = PyNone
        /\ Cardinality({k \in DOMAIN strLog : strLog[k].obj = i}) >= 2
        /\ procs = {}

(* C8 as claimed: a state outside the recognized set is accepted and kept
   unchanged both by the Finding the watcher builds and by
   network_types.IpConnection (endpoints with equal tags). *)
C8_UnrecognizedStateAcceptedEverywhere ==
    /\ \A i \in DOMAIN heap : heap[i].connection_state = osTable[origin[i]].status
    /\ (NetCalled /\ netArgs.state \notin Recognized
           /\ netArgs.start.tr_prot = netArgs.end.tr_prot) =>
          /\ netResult.exc = "none"
          /\ netResult.obj # <<>>
          /\ netResult.obj[1]._conn_state = netArgs.state

(* C8 amended: the Finding the watcher builds keeps an unrecognized state
   string unchanged and its construction does not fail, while
   network_types.IpConnection rejects an unrecognized state with ValueError
   and yields no object. *)
C8_UnrecognizedStateKeptByFindingOnly ==
    /\ \A i \in DOMAIN heap : heap[i].connection_state = osTable[origin[i]].status
    /\ (NetCalled /\ netArgs.state \notin Recognized) =>
          /\ netResult.exc = "ValueError"
          /\ netResult.obj = <<>>

C8_Witness ==
    /\ heap # <<>>
    /\ osTable[1].status \notin Recognized
    /\ heap[1].connection_state = osTable[1].status
    /\ NetCalled
    /\ netArgs.state \notin Recognized
    /\ netArgs.start.tr_prot = netArgs.end.tr_prot

(* C9: when BasicReporter.report has returned, every Finding has the field
   values it had when report was called. *)
C9_ReportLeavesInputUnchanged ==
    pc = "done" => heap = heapAtCall

(* C10: a second call of the console reporter on the same annotated list
   completes and prints exactly what the first call printed. *)
C10_SecondReportPrintsTheSame ==
    (Len(outputs) >= 2 /\ pc \in {"done", "raised"}) =>
        /\ pc = "done"
        /\ outputs[Len(outputs)] = outputs[Len(outputs) - 1]

Flagged(annotated) == SelectSeq(annotated, LAMBDA pair : pair[2] = TRUE)

BulletLines(annotated) ==
    [k \in 1..Len(Flagged(annotated)) |-> <<" *", " ">> \o Format(heap[Flagged(annotated)[k][1]])]

(* C11 as claimed: the output of a completed call of the console reporter
   consists only of bullet-prefixed lines, one per flagged item in input
   order, and is empty when nothing is flagged. *)
C11_OutputIsOnlyBulletLines ==
    pc = "done" => outputs[Len(outputs)] = BulletLines(reportArg)

(* C11 amended: when at least one item is flagged the output of a call is
   the header line followed by one bullet-prefixed line per flagged item in
   input order, with no line for an unflagged item; when nothing is flagged
   (or the list is empty) nothing is printed.  A call that has not returned,
   or that was aborted by a raising stringification, has printed a prefix
   of that output. *)
C11_HeaderThenBulletLines ==
    LET expected == IF Flagged(reportArg) = <<>> THEN <<>>
                    ELSE <<Header>> \o BulletLines(reportArg)
    IN \A k \in DOMAIN outputs :
          /\ IsPrefix(outputs[k], expected)
          /\ (k < Len(outputs) \/ pc = "done") => outputs[k] = expected

C11_Witness ==
    /\ pc = "done"
    /\ Len(reportArg) = 2
    /\ reportArg[1][2] = FALSE
    /\ reportArg[2][2] = TRUE
    /\ outputs[Len(outputs)] = <<Header>> \o BulletLines(reportArg)
    /\ Len(outputs[Len(outputs)]) = 2

====
